---- MODULE Spec2Model ----
(***************************************************************************)
(* Model of enumeratePolycubes.py: the k-subset unranker, the base-5 cell  *)
(* decoder, the face-adjacency graph and its component count, the two      *)
(* symmetry testers, the enumeration driver and the brute-force spanning   *)
(* tree search.                                                            *)
(*                                                                         *)
(* Conventions.  A Python list is a TLA+ sequence; Python index j is       *)
(* position j+1.  A coordinate tuple (x,y,z) is <<x,y,z>>; Python axis a   *)
(* is position a+1.  Graph nodes keep their Python numbers 0..n-1.         *)
(***************************************************************************)
EXTENDS Integers, Sequences, FiniteSets, TLC

VARIABLES pc, r, k, n, T, outcome,
          test, p1, p2, result,
          returnUnique, coordinateRanks, coordinates, regions, verdict, seen,
          E, subset, edgeSubset, validTrees

unrankVars == <<r, k, n, T, outcome>>
isoVars    == <<test, p1, p2, result>>
enumVars   == <<returnUnique, coordinateRanks, coordinates, regions, verdict, seen>>
treeVars   == <<E, subset, edgeSubset, validTrees>>
vars       == <<pc, unrankVars, isoVars, enumVars, treeVars>>

(***************************************************************************)
(* Bounds of the model.                                                    *)
(***************************************************************************)
MaxN == 6
MaxExtra == 2
MaxCoord == 1
MaxNodes == 4

(***************************************************************************)
(* Program constants.                                                      *)
(***************************************************************************)
BoxBase == 5
BoxCells == 125
PadWidth == 3

(***************************************************************************)
(* Generic helpers.                                                        *)
(***************************************************************************)
Range(s) == {s[idx] : idx \in DOMAIN s}

Max(S) == CHOOSE m \in S : \A y \in S : y <= m

Min(S) == CHOOSE m \in S : \A y \in S : m <= y

Abs(v) == IF v < 0 THEN 0 - v ELSE v

RECURSIVE SetToSeq(_)
SetToSeq(S) ==
    IF S = {} THEN <<>>
    ELSE LET m == CHOOSE a \in S : \A b \in S : a = b \/ a[1] < b[1]
                       \/ (a[1] = b[1] /\ a[2] < b[2])
                       \/ (a[1] = b[1] /\ a[2] = b[2] /\ a[3] <= b[3])
         IN <<m>> \o SetToSeq(S \ {m})

KSubsets(S, size) == {X \in SUBSET S : Cardinality(X) = size}

(***************************************************************************)
(* scipy.special.binom on the integers the program passes to it, after     *)
(* int(): C(x, j), which is 0 when 0 <= x < j.                             *)
(***************************************************************************)
RECURSIVE binom(_, _)
binom(x, j) ==
    IF j = 0 THEN 1
    ELSE IF x < j THEN 0
    ELSE (binom(x - 1, j - 1) * x) \div j

(***************************************************************************)
(* unrank_kSubset.  LowerX is the inner while loop, UnrankFrom the for     *)
(* loop from position i on.                                                *)
(***************************************************************************)
RECURSIVE LowerX(_, _, _)
LowerX(x, j, rank) ==
    IF binom(x, j) > rank THEN LowerX(x - 1, j, rank) ELSE x

EmitOneBased(x) == x + 1

Emit(x) == x

RECURSIVE UnrankFromKeepRank(_, _, _, _)
UnrankFromKeepRank(i, x, rank, size) ==
    IF i > size THEN <<>>
    ELSE LET x2 == LowerX(x, size + 1 - i, rank)
         IN <<Emit(x2)>> \o UnrankFromKeepRank(i + 1, x2, rank, size)

RECURSIVE UnrankFrom(_, _, _, _)
UnrankFrom(i, x, rank, size) ==
    IF i > size THEN <<>>
    ELSE LET x2 == LowerX(x, size + 1 - i, rank)
         IN <<Emit(x2)>> \o UnrankFrom(i + 1, x2, rank - binom(x2, size + 1 - i), size)

unrank_kSubset_startBelow(rank, size, total) == UnrankFrom(1, total - 1, rank, size)

unrank_kSubset(rank, size, total) == UnrankFrom(1, total, rank, size)

(***************************************************************************)
(* convert_to_decimal(b, num) followed by zfill(3) and the split into      *)
(* digits.  The digit string is a sequence of digits, most significant     *)
(* first.  numDigits is ceil(log10(num+1)/log10(b)): the least d with      *)
(* b^d >= num+1 (for b = 5 the float quotient is 1.0, 2.0 and              *)
(* 2.9999999999999996 at num+1 = 5, 25, 125, so the ceiling is exact on    *)
(* the cells 0..124).                                                      *)
(***************************************************************************)
RECURSIVE Pow(_, _)
Pow(b, e) == IF e = 0 THEN 1 ELSE b * Pow(b, e - 1)

RECURSIVE NumDigitsFrom(_, _, _)
NumDigitsFrom(b, num, d) ==
    IF Pow(b, d) >= num + 1 THEN d ELSE NumDigitsFrom(b, num, d + 1)

RECURSIVE DigitsFrom(_, _, _)
DigitsFrom(b, num, i) ==
    IF i < 0 THEN <<>>
    ELSE LET digitToAdd == num \div Pow(b, i)
         IN <<digitToAdd>> \o DigitsFrom(b, num - Pow(b, i) * digitToAdd, i - 1)

convert_to_decimal(b, num) ==
    IF num = 0 THEN <<0>>
    ELSE DigitsFrom(b, num, NumDigitsFrom(b, num, 0) - 1)

zfill(s, width) ==
    IF Len(s) >= width THEN s
    ELSE [idx \in 1..(width - Len(s)) |-> 0] \o s

DecodeCell(x) == zfill(convert_to_decimal(BoxBase, x), PadWidth)

(***************************************************************************)
(* Python list indexing E[j] with a possibly negative j, as the position   *)
(* of the element in the sequence (0 when the index is out of range).      *)
(***************************************************************************)
PyIndex(j, len) ==
    IF j >= 0 /\ j < len THEN j + 1
    ELSE IF j < 0 /\ j >= 0 - len THEN len + j + 1
    ELSE 0

(***************************************************************************)
(* The symmetry testers.  reflectPoints is the per-axis maximum of p2,     *)
(* computed once; each transform permutes the axes of every coordinate of  *)
(* p2 and reflects the flagged ones about the pivot of the source axis.    *)
(* The loops return True on the first match, so the result is an           *)
(* existential over the permutations and the reflection flags.             *)
(***************************************************************************)
Axes == 1..3

reflectPoints(coordinateSet) ==
    [a \in Axes |-> Max({coordinateSet[idx][a] : idx \in DOMAIN coordinateSet})]

Permutations3 ==
    {f \in [Axes -> Axes] : \A a, b \in Axes : a # b => f[a] # f[b]}

Permutations2Identity == {[a \in 1..2 |-> a]}

Permutations2 ==
    {f \in [1..2 -> 1..2] : f[1] # f[2]}

ReflectAlways(flag, pivot, v) == pivot - v

Reflect(flag, pivot, v) == IF flag = 1 THEN pivot - v ELSE v

AllTransform(coordinateSet, permute, reflect) ==
    LET pivots == reflectPoints(coordinateSet)
    IN {<<Reflect(reflect[1], pivots[permute[1]], coord[permute[1]]),
          Reflect(reflect[2], pivots[permute[2]], coord[permute[2]]),
          Reflect(reflect[3], pivots[permute[3]], coord[permute[3]])>>
        : coord \in Range(coordinateSet)}

PolyTransformNoRY(coordinateSet, permute, reflect) ==
    LET pivots == reflectPoints(coordinateSet)
    IN {<<Reflect(reflect[1], pivots[permute[1]], coord[permute[1]]),
          coord[permute[2]],
          coord[3]>>
        : coord \in Range(coordinateSet)}

PolyTransform(coordinateSet, permute, reflect) ==
    LET pivots == reflectPoints(coordinateSet)
    IN {<<Reflect(reflect[1], pivots[permute[1]], coord[permute[1]]),
          Reflect(reflect[2], pivots[permute[2]], coord[permute[2]]),
          coord[3]>>
        : coord \in Range(coordinateSet)}

check_all_isomorphism(q1, q2) ==
    LET fixedCoordinates == Range(q1)
    IN \E permute \in Permutations3 : \E reflect \in [Axes -> {0, 1}] :
           AllTransform(q2, permute, reflect) = fixedCoordinates

check_poly_isomorphism(q1, q2) ==
    LET fixedCoordinates == Range(q1)
    IN \E permute \in Permutations2 : \E reflect \in [1..2 -> {0, 1}] :
           PolyTransform(q2, permute, reflect) = fixedCoordinates

IsoTest(mode, q1, q2) ==
    IF mode = "all" THEN check_all_isomorphism(q1, q2)
    ELSE check_poly_isomorphism(q1, q2)

(***************************************************************************)
(* The shapes of the command-line self-check.                              *)
(***************************************************************************)
d1 == << <<0,0,0>>, <<0,0,1>>, <<0,1,1>>, <<0,1,2>>, <<1,1,1>>, <<1,1,2>> >>

d2 == << <<0,0,0>>, <<1,0,0>>, <<2,0,0>>, <<3,0,0>>, <<4,0,0>>, <<5,0,0>> >>

d3 == << <<0,0,0>>, <<0,1,0>>, <<0,2,0>>, <<0,3,0>>, <<0,4,0>>, <<0,5,0>> >>

d4 == << <<0,0,0>>, <<1,0,0>>, <<1,1,0>>, <<2,1,0>>, <<1,1,1>>, <<2,1,1>> >>

(***************************************************************************)
(* taxi_distance, polycube_to_graph and num_regions.  The adjacency        *)
(* matrix is indexed by list positions; the component count is the         *)
(* library's graph search: take an unvisited node, remove everything       *)
(* reachable from it, count one.                                           *)
(***************************************************************************)
taxi_distance(v1, v2) ==
    Abs(v1[1] - v2[1]) + Abs(v1[2] - v2[2]) + Abs(v1[3] - v2[3])

polycube_to_graph_diagonal(p) ==
    [i \in DOMAIN p |-> [j \in DOMAIN p |->
        IF taxi_distance(p[i], p[j]) \in 1..2 THEN 1 ELSE 0]]

polycube_to_graph(p) ==
    [i \in DOMAIN p |-> [j \in DOMAIN p |->
        IF taxi_distance(p[i], p[j]) = 1 THEN 1 ELSE 0]]

RECURSIVE Reach(_, _, _)
Reach(A, nodes, visited) ==
    LET next == visited \cup
                {j \in nodes : \E i \in visited : A[i][j] # 0 \/ A[j][i] # 0}
    IN IF next = visited THEN visited ELSE Reach(A, nodes, next)

RECURSIVE CountComponents(_, _)
CountComponents(A, nodes) ==
    IF nodes = {} THEN 0
    ELSE LET start == Min(nodes)
         IN 1 + CountComponents(A, nodes \ Reach(A, nodes, {start}))

num_regions(p) == CountComponents(polycube_to_graph(p), DOMAIN p)

(***************************************************************************)
(* Input shapes of the symmetry-tester runs: every polycube of up to       *)
(* three cubes and every pair of cells of the box 0..MaxCoord per axis     *)
(* (at any offset, so not only translated-to-origin shapes), and the four  *)
(* shapes of the self-check.                                               *)
(***************************************************************************)
Coords == 0..MaxCoord

Box == Coords \X Coords \X Coords

Grow(shapes) == {X \cup {c} : X \in shapes, c \in Box}

ConnectedSet(X) == num_regions(SetToSeq(X)) = 1

Monocubes == {{c} : c \in Box}

Dicubes == {X \in Grow(Monocubes) : Cardinality(X) = 2 /\ ConnectedSet(X)}

Tricubes == {X \in Grow(Dicubes) : Cardinality(X) = 3 /\ ConnectedSet(X)}

CellPairs == {{a, b} : a, b \in Box}

Shapes ==
    {SetToSeq(X) : X \in Monocubes \cup Dicubes \cup Tricubes \cup CellPairs}
    \cup {d1, d2, d3, d4}

Normalised(p) ==
    \A a \in Axes : Min({p[idx][a] : idx \in DOMAIN p}) = 0


(***************************************************************************)
(* Values of the variables a run does not use.                             *)
(***************************************************************************)
IdleUnrank == r = 0 /\ k = 0 /\ n = 0 /\ T = <<>> /\ outcome = "none"

IdleIso == test = "none" /\ p1 = <<>> /\ p2 = <<>> /\ result = FALSE

IdleEnum ==
    /\ returnUnique = <<>> /\ coordinateRanks = <<>> /\ coordinates = <<>>
    /\ regions = 0 /\ verdict = "none" /\ seen = {}

IdleTree == E = <<>> /\ subset = <<>> /\ edgeSubset = <<>> /\ validTrees = <<>>

(***************************************************************************)
(* The polycube sizes of the enumeration runs.                             *)
(***************************************************************************)
Sizes == 1..2

(***************************************************************************)
(* Runs of unrank_kSubset(r, k, n): every (k, n) with k <= n <= MaxN and   *)
(* the (k, 125) of the enumeration driver, every rank in range and the     *)
(* first MaxExtra ranks past the range.  The function has no raise and,    *)
(* for r >= 0, its loops end, so the call returns its list.                *)
(***************************************************************************)
UnrankPairs ==
    {<<kk, nn>> \in (0..MaxN) \X (0..MaxN) : kk <= nn}
    \cup {<<kk, BoxCells>> : kk \in Sizes}

InitUnrank ==
    /\ pc = "call"
    /\ \E pair \in UnrankPairs :
          /\ k = pair[1]
          /\ n = pair[2]
          /\ r \in 0..(binom(pair[2], pair[1]) - 1 + MaxExtra)
    /\ T = <<>>
    /\ outcome = "none"
    /\ IdleIso /\ IdleEnum /\ IdleTree

CallUnrank ==
    /\ pc = "call"
    /\ T' = unrank_kSubset(r, k, n)
    /\ outcome' = "returned"
    /\ pc' = "done"
    /\ UNCHANGED <<r, k, n, isoVars, enumVars, treeVars>>

NextUnrank == CallUnrank

SpecUnrank == InitUnrank /\ [][NextUnrank]_vars

(***************************************************************************)
(* Runs of the two symmetry testers on a pair of shapes, as the 'all' and  *)
(* 'poly' modes of the command line run them.                              *)
(***************************************************************************)
InitIso ==
    /\ pc = "call"
    /\ test \in {"all", "poly"}
    /\ p1 \in Shapes
    /\ p2 \in Shapes
    /\ result = FALSE
    /\ IdleUnrank /\ IdleEnum /\ IdleTree

CheckAll ==
    /\ pc = "call"
    /\ test = "all"
    /\ result' = check_all_isomorphism(p1, p2)
    /\ pc' = "done"
    /\ UNCHANGED <<test, p1, p2, unrankVars, enumVars, treeVars>>

CheckPoly ==
    /\ pc = "call"
    /\ test = "poly"
    /\ result' = check_poly_isomorphism(p1, p2)
    /\ pc' = "done"
    /\ UNCHANGED <<test, p1, p2, unrankVars, enumVars, treeVars>>

NextIso == CheckAll \/ CheckPoly

SpecIso == InitIso /\ [][NextIso]_vars


(***************************************************************************)
(* get_polycubes_of_size(k).  One step of the loop over the ranks: unrank, *)
(* decode, reject when not one region, translate to the origin, compare    *)
(* with every catalog entry, append when none matches.  verdict records    *)
(* which exit the iteration took and seen collects the translated          *)
(* connected candidates processed so far.                                  *)
(***************************************************************************)
TranslateNothing(coords) == coords

Translate(coords) ==
    LET minX == Min({coords[idx][1] : idx \in DOMAIN coords})
        minY == Min({coords[idx][2] : idx \in DOMAIN coords})
        minZ == Min({coords[idx][3] : idx \in DOMAIN coords})
    IN [idx \in DOMAIN coords |->
           <<coords[idx][1] - minX, coords[idx][2] - minY, coords[idx][3] - minZ>>]

IsUniqueAgainstLast(catalog, coords) ==
    catalog = <<>> \/ ~check_poly_isomorphism(catalog[Len(catalog)], coords)

IsUnique(catalog, coords) ==
    \A idx \in DOMAIN catalog : ~check_poly_isomorphism(catalog[idx], coords)

totalPossibilities == binom(BoxCells, k)

InitEnum ==
    /\ pc = "loop"
    /\ k \in Sizes
    /\ n = BoxCells
    /\ r = 0
    /\ T = <<>> /\ outcome = "none"
    /\ IdleEnum /\ IdleIso /\ IdleTree

ProcessRank ==
    /\ pc = "loop"
    /\ r < totalPossibilities
    /\ coordinateRanks' = unrank_kSubset(r, k, BoxCells)
    /\ \E decoded \in {[idx \in DOMAIN coordinateRanks' |->
                          DecodeCell(coordinateRanks'[idx])]} :
          /\ regions' = num_regions(decoded)
          /\ IF regions' # 1
             THEN /\ coordinates' = decoded
                  /\ verdict' = "rejected"
                  /\ UNCHANGED <<returnUnique, seen>>
             ELSE /\ coordinates' = Translate(decoded)
                  /\ seen' = seen \cup {Range(coordinates')}
                  /\ IF IsUnique(returnUnique, coordinates')
                     THEN /\ returnUnique' = Append(returnUnique, coordinates')
                          /\ verdict' = "added"
                     ELSE /\ verdict' = "duplicate"
                          /\ UNCHANGED returnUnique
    /\ r' = r + 1
    /\ UNCHANGED <<pc, k, n, T, outcome, isoVars, treeVars>>

ReturnCatalog ==
    /\ pc = "loop"
    /\ r = totalPossibilities
    /\ pc' = "done"
    /\ UNCHANGED <<unrankVars, isoVars, enumVars, treeVars>>

NextEnum == ProcessRank \/ ReturnCatalog

SpecEnum == InitEnum /\ [][NextEnum]_vars

(***************************************************************************)
(* checkTree and brute_force_trees.  checkTree writes A[edge] = 1 for each *)
(* edge and asks the graph library whether the undirected graph of the     *)
(* matrix is a tree: one edge fewer than nodes, and connected.             *)
(***************************************************************************)
Nodes(count) == 0..(count - 1)

AdjacencyOf(edgeList, count) ==
    [u \in Nodes(count) |-> [v \in Nodes(count) |->
        IF <<u, v>> \in Range(edgeList) THEN 1 ELSE 0]]

NumberOfEdges(A, count) ==
    Cardinality({pair \in Nodes(count) \X Nodes(count) :
                    pair[1] <= pair[2]
                    /\ (A[pair[1]][pair[2]] # 0 \/ A[pair[2]][pair[1]] # 0)})

checkTree(edgeList, count) ==
    LET A == AdjacencyOf(edgeList, count)
    IN /\ count - 1 = NumberOfEdges(A, count)
       /\ Reach(A, Nodes(count), {0}) = Nodes(count)

numSubsetsShort(count, edges) == binom(Len(edges), count - 1) - 1

numSubsets(count, edges) == binom(Len(edges), count - 1)

PickEdges(edges, chosen) ==
    [idx \in DOMAIN chosen |->
        edges[PyIndex(chosen[Len(chosen) + 1 - idx] - 1, Len(edges))]]

(***************************************************************************)
(* Input graphs of the spanning-tree runs: every simple graph on up to     *)
(* MaxNodes nodes, its edge list in the order get_edge_list produces       *)
(* (each edge once as (u, v) with u < v, sorted).                          *)
(***************************************************************************)
RECURSIVE EdgeSeq(_)
EdgeSeq(S) ==
    IF S = {} THEN <<>>
    ELSE LET m == CHOOSE a \in S : \A b \in S :
                      a[1] < b[1] \/ (a[1] = b[1] /\ a[2] <= b[2])
         IN <<m>> \o EdgeSeq(S \ {m})

AllEdges(count) == {e \in Nodes(count) \X Nodes(count) : e[1] < e[2]}

InitTrees ==
    /\ pc = "loop"
    /\ n \in 1..MaxNodes
    /\ \E chosen \in SUBSET AllEdges(n) : E = EdgeSeq(chosen)
    /\ r = 0
    /\ k = 0 /\ T = <<>> /\ outcome = "none"
    /\ subset = <<>> /\ edgeSubset = <<>> /\ validTrees = <<>>
    /\ IdleIso /\ IdleEnum

TrySubset ==
    /\ pc = "loop"
    /\ r < numSubsets(n, E)
    /\ subset' = unrank_kSubset(r, n - 1, Len(E))
    /\ edgeSubset' = PickEdges(E, subset')
    /\ validTrees' = IF checkTree(edgeSubset', n)
                     THEN Append(validTrees, edgeSubset')
                     ELSE validTrees
    /\ r' = r + 1
    /\ UNCHANGED <<pc, k, n, T, outcome, E, isoVars, enumVars>>

ReturnTrees ==
    /\ pc = "loop"
    /\ r >= numSubsets(n, E)
    /\ pc' = "done"
    /\ UNCHANGED <<unrankVars, isoVars, enumVars, treeVars>>

NextTrees == TrySubset \/ ReturnTrees

SpecTrees == InitTrees /\ [][NextTrees]_vars

(***************************************************************************)
(* Properties of unrank_kSubset.                                           *)
(***************************************************************************)
InRange == r < binom(n, k)

Ranks == 0..(binom(n, k) - 1)

SubsetOfRank(rank) == Range(unrank_kSubset(rank, k, n))

StrictlyDecreasing(s) == \A i, j \in DOMAIN s : i < j => s[i] > s[j]

(* C1 as stated: for fixed k and n the ranks 0 <= r < C(n,k) map one-to-one
   onto the k-element subsets of {1..n}. *)
C1_BijectionOntoOneToN ==
    (pc = "done" /\ InRange /\ n <= MaxN) =>
        /\ Range(T) \in KSubsets(1..n, k)
        /\ \A r2 \in Ranks : r2 # r => SubsetOfRank(r2) # Range(T)
        /\ \A S \in KSubsets(1..n, k) : \E r2 \in Ranks : SubsetOfRank(r2) = S

(* C1 amended: for fixed k and n the ranks 0 <= r < C(n,k) map one-to-one
   onto the k-element subsets of {0..n-1}: no two ranks in range give the
   same subset and every k-subset of {0..n-1} is produced by some rank. *)
C1_BijectionOntoZeroBased ==
    (pc = "done" /\ InRange /\ n <= MaxN) =>
        /\ Range(T) \in KSubsets(0..(n - 1), k)
        /\ \A r2 \in Ranks : r2 # r => SubsetOfRank(r2) # Range(T)
        /\ \A S \in KSubsets(0..(n - 1), k) : \E r2 \in Ranks : SubsetOfRank(r2) = S

C1_Witness ==
    pc = "done" /\ k = 2 /\ n = 4 /\ r = 5 /\ T = <<3, 2>>

(* C6 as stated: a call whose rank is not below C(n,k) ends in an error
   and returns no list. *)
C6_OutOfRangeIsFatal ==
    (pc = "done" /\ ~InRange) => outcome = "error"

(* C6 amended: a call whose rank is C(n,k) or more raises nothing: it
   returns a list of k values, the first of which (when k > 0) is n, one
   past the last valid index. *)
C6_OutOfRangeReturnsList ==
    (pc = "done" /\ ~InRange) =>
        /\ outcome = "returned"
        /\ Len(T) = k
        /\ (k > 0 => T[1] = n)

C6_Witness ==
    pc = "done" /\ k = 2 /\ n = 4 /\ r = 6 /\ outcome = "returned" /\ T = <<4, 0>>

(* C10: for every rank in range the result is k strictly decreasing
   integers in 0..n-1 (never n); with n = 125 each value decodes to three
   base-5 digits, a cell of the 5x5x5 box, different values to different
   cells; and reading E[j-1] of an n-element list for each value j, with
   index -1 wrapping to the last element, reads k different positions. *)
C10_ZeroBasedIndices ==
    (pc = "done" /\ InRange) =>
        /\ Len(T) = k
        /\ StrictlyDecreasing(T)
        /\ \A i \in DOMAIN T : T[i] \in 0..(n - 1)
        /\ n = BoxCells =>
              \A i \in DOMAIN T :
                  /\ DecodeCell(T[i]) \in (0..(BoxBase - 1)) \X (0..(BoxBase - 1))
                                           \X (0..(BoxBase - 1))
                  /\ \A j \in DOMAIN T :
                         DecodeCell(T[i]) = DecodeCell(T[j]) => i = j
        /\ \A i \in DOMAIN T :
              /\ PyIndex(T[i] - 1, n) \in 1..n
              /\ \A j \in DOMAIN T :
                     PyIndex(T[i] - 1, n) = PyIndex(T[j] - 1, n) => i = j

C10_Witness ==
    /\ pc = "done" /\ k = 2 /\ n = BoxCells /\ r = binom(BoxCells, 2) - 1
    /\ T = <<124, 123>>
    /\ DecodeCell(T[1]) = <<4, 4, 4>>

(***************************************************************************)
(* Properties of the symmetry testers.                                     *)
(***************************************************************************)
(* C5: each tester returns true when both arguments are the same
   coordinate set. *)
C5_Reflexive ==
    (pc = "done" /\ p1 = p2) => result

C5_Witness ==
    pc = "done" /\ p1 = p2 /\ test = "all" /\ Len(p1) = 3 /\ ~Normalised(p1) /\ result

(* C2 as stated: for any two coordinate sets, a tester that returns true
   on (A, B) returns true on (B, A). *)
C2_SymmetricAnySets ==
    (pc = "done" /\ result) => IsoTest(test, p2, p1)

(* C2 amended: for two coordinate sets that are both translated so that
   their minimum along each axis is 0, a tester that returns true on (A, B)
   returns true on (B, A). *)
C2_SymmetricNormalised ==
    (pc = "done" /\ result /\ Normalised(p1) /\ Normalised(p2)) =>
        IsoTest(test, p2, p1)

C2_Witness ==
    /\ pc = "done" /\ result /\ test = "poly" /\ Len(p1) = 3 /\ p1 # p2
    /\ Normalised(p1) /\ Normalised(p2)
    /\ IsoTest(test, p2, p1)

(* C7: both testers return true for the line d2 against the line d3, and
   false for d1 against d2; each in either argument order. *)
C7_SelfCheckShapes ==
    pc = "done" =>
        /\ ((p1 = d2 /\ p2 = d3) \/ (p1 = d3 /\ p2 = d2)) => result
        /\ ((p1 = d1 /\ p2 = d2) \/ (p1 = d2 /\ p2 = d1)) => ~result

C7_Witness ==
    pc = "done" /\ test = "poly" /\ p1 = d2 /\ p2 = d3 /\ result


(***************************************************************************)
(* Properties of the enumeration driver.                                   *)
(***************************************************************************)
FaceAdjacent(a, b) ==
    \E axis \in Axes :
        /\ a[axis] - b[axis] \in {-1, 1}
        /\ \A other \in Axes \ {axis} : a[other] = b[other]

RECURSIVE Closure(_, _)
Closure(coords, group) ==
    LET wider == group \cup
                 {j \in DOMAIN coords : \E i \in group : FaceAdjacent(coords[i], coords[j])}
    IN IF wider = group THEN group ELSE Closure(coords, wider)

ComponentCount(coords) ==
    Cardinality({Closure(coords, {i}) : i \in DOMAIN coords})

ManhattanTwo(a, b) ==
    \/ \E axis \in Axes :
           /\ a[axis] - b[axis] \in {-2, 2}
           /\ \A other \in Axes \ {axis} : a[other] = b[other]
    \/ \E ax1, ax2 \in Axes :
           /\ ax1 # ax2
           /\ a[ax1] - b[ax1] \in {-1, 1}
           /\ a[ax2] - b[ax2] \in {-1, 1}
           /\ \A other \in Axes \ {ax1, ax2} : a[other] = b[other]

(* C3 as stated: for k = 1 and for k = 2 the returned catalog holds exactly
   one shape, for k = 2 a face-adjacent pair. *)
C3_OneShapePerSize ==
    pc = "done" =>
        /\ Len(returnUnique) = 1
        /\ k = 2 => FaceAdjacent(returnUnique[1][1], returnUnique[1][2])

(* C3 amended: for k = 1 the returned catalog holds exactly one shape, the
   single cube at the origin; for k = 2 it holds exactly two shapes, both
   face-adjacent pairs at the origin: one along axis 2 and one in the plane
   of axes 0 and 1 (the 8-transform test never moves axis 2). *)
C3_OneThenTwoShapes ==
    pc = "done" =>
        /\ k = 1 => returnUnique = << << <<0, 0, 0>> >> >>
        /\ k = 2 =>
              /\ Len(returnUnique) = 2
              /\ \A idx \in 1..2 :
                     /\ Len(returnUnique[idx]) = 2
                     /\ FaceAdjacent(returnUnique[idx][1], returnUnique[idx][2])
                     /\ <<0, 0, 0>> \in Range(returnUnique[idx])
              /\ \E idx \in 1..2 : <<0, 0, 1>> \in Range(returnUnique[idx])
              /\ \E idx \in 1..2 : returnUnique[idx][1][3] = returnUnique[idx][2][3]

C3_Witness ==
    pc = "done" /\ k = 2 /\ r = binom(BoxCells, 2) /\ Len(returnUnique) = 2

(* C8: the region count of every processed candidate is the number of
   connected components of its face-adjacency graph: 2 for two cells at
   Manhattan distance 2, 1 for two face-adjacent cells; a candidate is
   rejected exactly when the count is not 1, and every candidate that got
   past the filter, and every catalog entry, is one component. *)
C8_RegionsAreComponents ==
    verdict # "none" =>
        /\ regions = ComponentCount(coordinates)
        /\ (k = 2 /\ ManhattanTwo(coordinates[1], coordinates[2])) => regions = 2
        /\ (k = 2 /\ FaceAdjacent(coordinates[1], coordinates[2])) => regions = 1
        /\ (verdict = "rejected") <=> (regions # 1)
        /\ \A idx \in DOMAIN returnUnique : ComponentCount(returnUnique[idx]) = 1
        /\ \A c \in seen : ComponentCount(SetToSeq(c)) = 1

C8_Witness ==
    /\ verdict = "rejected" /\ k = 2 /\ regions = 2
    /\ ManhattanTwo(coordinates[1], coordinates[2])
    /\ returnUnique # <<>>

(* C9: after every processed rank, every connected candidate seen so far,
   translated to the origin, is reported isomorphic to exactly one catalog
   entry; the entries are translated to the origin, an added candidate is
   the newest entry, and no catalog entry is reported isomorphic to another
   in either argument order. *)
C9_UniqueRepresentatives ==
    /\ \A c \in seen :
           Cardinality({idx \in DOMAIN returnUnique :
                           check_poly_isomorphism(returnUnique[idx], SetToSeq(c))}) = 1
    /\ \A i, j \in DOMAIN returnUnique :
           i # j => ~check_poly_isomorphism(returnUnique[i], returnUnique[j])
    /\ \A idx \in DOMAIN returnUnique :
           Normalised(returnUnique[idx]) /\ Range(returnUnique[idx]) \in seen
    /\ verdict = "added" => returnUnique[Len(returnUnique)] = coordinates

C9_Witness ==
    /\ verdict = "duplicate" /\ k = 2 /\ Len(returnUnique) = 2
    /\ Cardinality(seen) = 3
    /\ check_poly_isomorphism(returnUnique[2], coordinates)


(***************************************************************************)
(* Properties of the spanning-tree search.                                 *)
(***************************************************************************)
RECURSIVE Linked(_, _)
Linked(edgeSet, group) ==
    LET wider == group \cup {e[1] : e \in {f \in edgeSet : f[2] \in group}}
                       \cup {e[2] : e \in {f \in edgeSet : f[1] \in group}}
    IN IF wider = group THEN group ELSE Linked(edgeSet, wider)

IsSpanningTree(edgeSet, count) ==
    /\ Cardinality(edgeSet) = count - 1
    /\ \A u \in Nodes(count) : Linked(edgeSet, {u}) = Nodes(count)
    /\ \A e \in edgeSet : e[2] \notin Linked(edgeSet \ {e}, {e[1]})

SpanningTrees(edges, count) ==
    {S \in SUBSET Range(edges) : IsSpanningTree(S, count)}

PathGraph(count) == [idx \in 1..(count - 1) |-> <<idx - 1, idx>>]

Triangle == << <<0, 1>>, <<0, 2>>, <<1, 2>> >>

(* C4: the returned list holds exactly the spanning trees of the graph,
   each once: every entry is n-1 distinct edges of E that connect all n
   nodes without a cycle, and every such edge subset is returned; a simple
   path gives 1 tree, the path itself, and a triangle gives 3. *)
C4_ExactlyTheSpanningTrees ==
    pc = "done" =>
        /\ \A idx \in DOMAIN validTrees :
               /\ Len(validTrees[idx]) = n - 1
               /\ Range(validTrees[idx]) \subseteq Range(E)
               /\ IsSpanningTree(Range(validTrees[idx]), n)
        /\ {Range(validTrees[idx]) : idx \in DOMAIN validTrees} = SpanningTrees(E, n)
        /\ \A i, j \in DOMAIN validTrees :
               Range(validTrees[i]) = Range(validTrees[j]) => i = j
        /\ E = PathGraph(n) => (Len(validTrees) = 1 /\ Range(validTrees[1]) = Range(E))
        /\ (n = 3 /\ E = Triangle) => Len(validTrees) = 3

C4_Witness ==
    pc = "done" /\ n = 3 /\ E = Triangle /\ Len(validTrees) = 3


====
